---- MODULE Spec2Model ----
(***************************************************************************)
(* Hierarchical grid summarizer                                            *)
(* (src/geolocation_summarizer/hierarchical_summarizer.py).                *)
(*                                                                         *)
(* Coordinates are integers: one unit is half a grid cell, so grid_delta   *)
(* is 2 units and all arithmetic is exact.  int(a / b) of the source is    *)
(* truncation toward zero (Trunc), a // b is floor division (\div).        *)
(*                                                                         *)
(* A combined_tag string is a sequence of fragments; "; " separates        *)
(* fragments, so "; ".join is concatenation, ';' in s is Len(s) > 1 and    *)
(* the empty string is << >>.  A fragment is a sequence of tokens.  A      *)
(* summary returned by the provider is one fragment that quotes the        *)
(* description it was computed from between "[" and "]".                   *)
(*                                                                         *)
(* A dict is a sequence of entries in insertion order (Python dicts keep   *)
(* insertion order; batching depends on it).  A key "x_y" is the pair      *)
(* <<x, y>>.  The centre (lat, lon) of a cell only appears inside the      *)
(* description text sent to the provider and is left out.                  *)
(***************************************************************************)
EXTENDS Integers, Sequences, FiniteSets, TLC

\* ---------------------------------------------------------------- bounds
MaxTags == 2
MaxBuildTags == 2
MaxUpdates == 2
MaxFaults == 1

\* ---------------------------------------------------------------- inputs
\* no custom boundaries (custom_boundaries = None)
NoBoundaries == << >>
TagLats == {0, 1, 16}
TagLons == {0, 2}
TagPositions == TagLats \X TagLons
BuildPositions == {<<0, 0>>, <<1, 0>>, <<4, 2>>, <<16, 0>>}
UpdatePositions == {<<0, 0>>, <<3, 0>>}
UpdLats == {-2, -1, 0, 3, 8}
UpdLons == {0}
CustomBoundaries == {NoBoundaries, <<1, 19, -1, 5>>}
BatchSizes == {1, 2}

\* self.grid_delta, in coordinate units
grid_delta == 2

\* ------------------------------------------------------------ arithmetic
\* int(a / b) for b > 0: Python's int() truncates toward zero
Trunc(a, b) == IF a >= 0 THEN a \div b ELSE -((-a) \div b)

Pow2(n) == 2 ^ n

SetMin(S) == CHOOSE m \in S : \A e \in S : m <= e
SetMax(S) == CHOOSE m \in S : \A e \in S : m >= e
Range(s) == {s[i] : i \in DOMAIN s}

RECURSIVE Flatten(_)
\* concatenation of a sequence of sequences
Flatten(ss) == IF ss = << >> THEN << >> ELSE Head(ss) \o Flatten(Tail(ss))

\* ------------------------------------------------------------------ text
\* the text of the i-th input tag / of the n-th update
TagText(name) == << <<name>> >>

_has_valid_tag(combined_tag) == combined_tag # << >>
_has_multiple_tags(combined_tag) == Len(combined_tag) > 1
_get_tag_list(combined_tag) == combined_tag

RECURSIVE JoinTokens(_, _)
\* sep.join(parts) as one token sequence; parts is a sequence of fragments
JoinTokens(parts, sep) ==
    IF parts = << >> THEN << >>
    ELSE IF Len(parts) = 1 THEN parts[1]
    ELSE parts[1] \o <<sep>> \o JoinTokens(Tail(parts), sep)

\* description of a cell in summarize_cell_tags: ', '.join(tags)
CellDescription(combined_tag) == JoinTokens(_get_tag_list(combined_tag), ",")
\* description of a cell in batch_summarize_level: the text itself
LevelDescription(combined_tag) == JoinTokens(combined_tag, ";")
\* description of a kernel in update_with_new_tag: ', '.join(kernel_cells)
KernelDescription(kernel_cells) ==
    JoinTokens([i \in 1..Len(kernel_cells) |-> LevelDescription(kernel_cells[i])], ",")

\* what the provider answers for one ordinal: a summary of the description,
\* or the empty string
SummaryOf(description, kind) ==
    IF kind = "ok" THEN << <<"[">> \o description \o <<"]">> >> ELSE << >>

\* ------------------------------------------------------------------ dict
HasKey(d, k) == \E i \in DOMAIN d : d[i].key = k
IndexOf(d, k) == CHOOSE i \in DOMAIN d : d[i].key = k
Get(d, k) == d[IndexOf(d, k)]
\* d[k] = e
DictSet(d, e) ==
    IF HasKey(d, e.key) THEN [d EXCEPT ![IndexOf(d, e.key)] = e] ELSE Append(d, e)

\* ------------------------------------------------------------------ grid
\* summarize_data: custom boundaries are used only when all four are truthy
CustomArg(c) ==
    IF c # NoBoundaries /\ c[1] # 0 /\ c[2] # 0 /\ c[3] # 0 /\ c[4] # 0
    THEN c ELSE NoBoundaries

\* <<min_lat, max_lat, min_lon, max_lon>>, or BoundaryError when min() of an
\* empty list raises
BoundaryError == << >>
\* faulty variant of define_boundaries: min and max default to 0 on no tags
define_boundaries_default(tags, custom_boundaries) ==
    IF custom_boundaries # NoBoundaries THEN custom_boundaries
    ELSE LET lats == {tags[i].lat : i \in DOMAIN tags} \cup {0}
             lons == {tags[i].lon : i \in DOMAIN tags} \cup {0}
             buffer == grid_delta
         IN  <<SetMin(lats) - buffer, SetMax(lats) + buffer,
               SetMin(lons) - buffer, SetMax(lons) + buffer>>

define_boundaries(tags, custom_boundaries) ==
    IF custom_boundaries # NoBoundaries THEN custom_boundaries
    ELSE IF tags = << >> THEN BoundaryError
    ELSE LET lats == {tags[i].lat : i \in DOMAIN tags}
             lons == {tags[i].lon : i \in DOMAIN tags}
             buffer == grid_delta
         IN  <<SetMin(lats) - buffer, SetMax(lats) + buffer,
               SetMin(lons) - buffer, SetMax(lons) + buffer>>

\* grid index of a coordinate: int((coord - min_coord) / grid_delta)
GridIndex(coord, min_coord) == Trunc(coord - min_coord, grid_delta)

\* faulty variant of Normalize: the shift is taken from the first cell
NormalizeByFirst(level) ==
    IF level = << >> THEN level
    ELSE [i \in DOMAIN level |->
             [level[i] EXCEPT !.x = @ - level[1].x, !.y = @ - level[1].y]]

\* shift x and y of every cell so that the minimum is (0, 0)
Normalize(level) ==
    IF level = << >> THEN level
    ELSE LET min_x == SetMin({level[i].x : i \in DOMAIN level})
             min_y == SetMin({level[i].y : i \in DOMAIN level})
         IN  [i \in DOMAIN level |->
                [level[i] EXCEPT !.x = @ - min_x, !.y = @ - min_y]]

\* faulty variant of PlaceTag: the text of the cell is assigned, not extended
PlaceTagOverwrite(grid, tag, boundaries) ==
    LET min_lat == boundaries[1]
        min_lon == boundaries[3]
        grid_lat == GridIndex(tag.lat, min_lat)
        grid_lon == GridIndex(tag.lon, min_lon)
        k == <<grid_lat, grid_lon>>
        fresh == [key |-> k, x |-> grid_lat, y |-> grid_lon,
                  min_lat |-> min_lat + grid_lat * grid_delta,
                  max_lat |-> min_lat + (grid_lat + 1) * grid_delta,
                  min_lon |-> min_lon + grid_lon * grid_delta,
                  max_lon |-> min_lon + (grid_lon + 1) * grid_delta,
                  combined_tag |-> << >>, level |-> 0, leaves |-> {}]
        g == IF HasKey(grid, k) THEN grid ELSE Append(grid, fresh)
        i == IndexOf(g, k)
    IN  [g EXCEPT ![i].combined_tag = tag.text]

\* one iteration of the loop over tags in create_base_grid
PlaceTag(grid, tag, boundaries) ==
    LET min_lat == boundaries[1]
        min_lon == boundaries[3]
        grid_lat == GridIndex(tag.lat, min_lat)
        grid_lon == GridIndex(tag.lon, min_lon)
        k == <<grid_lat, grid_lon>>
        fresh == [key |-> k, x |-> grid_lat, y |-> grid_lon,
                  min_lat |-> min_lat + grid_lat * grid_delta,
                  max_lat |-> min_lat + (grid_lat + 1) * grid_delta,
                  min_lon |-> min_lon + grid_lon * grid_delta,
                  max_lon |-> min_lon + (grid_lon + 1) * grid_delta,
                  combined_tag |-> << >>, level |-> 0, leaves |-> {}]
        g == IF HasKey(grid, k) THEN grid ELSE Append(grid, fresh)
        i == IndexOf(g, k)
    IN  [g EXCEPT ![i].combined_tag = @ \o tag.text]

RECURSIVE PlaceTags(_, _, _)
PlaceTags(grid, tags, boundaries) ==
    IF tags = << >> THEN grid
    ELSE PlaceTags(PlaceTag(grid, Head(tags), boundaries), Tail(tags), boundaries)

\* level 0; leaves is a history field: the normalized level-0 coordinates a
\* cell was built from
create_base_grid(tags, boundaries) ==
    LET grid == Normalize(PlaceTags(<< >>, tags, boundaries))
    IN  [i \in DOMAIN grid |-> [grid[i] EXCEPT !.leaves = {<<grid[i].x, grid[i].y>>}]]

\* faulty variant of Stride: the windows advance by half their size
StrideHalf(level_num) == Pow2(level_num - 1)

\* stride of the kernel windows of create_next_level
Stride(level_num) == Pow2(level_num)

\* the cells of current_level inside the window that starts at (start_lat,
\* start_lon), in the order of the two inner loops
KernelCells(current_level, start_lat, start_lon, kernel_size) ==
    LET coords == [p \in 1..(kernel_size * kernel_size) |->
                     <<start_lat + ((p - 1) \div kernel_size),
                       start_lon + ((p - 1) % kernel_size)>>]
        present == SelectSeq(coords, LAMBDA c : HasKey(current_level, c))
    IN  [p \in DOMAIN present |-> Get(current_level, present[p])]

\* faulty variant of KernelBounds: the bounds of the first cell of the kernel only
KernelBoundsFirst(kernel_cells) ==
    [min_lat |-> kernel_cells[1].min_lat, max_lat |-> kernel_cells[1].max_lat,
     min_lon |-> kernel_cells[1].min_lon, max_lon |-> kernel_cells[1].max_lon]

\* kernel boundaries: min/max from all cells in the kernel
KernelBounds(kernel_cells) ==
    LET n == DOMAIN kernel_cells
    IN  [min_lat |-> SetMin({kernel_cells[i].min_lat : i \in n}),
         max_lat |-> SetMax({kernel_cells[i].max_lat : i \in n}),
         min_lon |-> SetMin({kernel_cells[i].min_lon : i \in n}),
         max_lon |-> SetMax({kernel_cells[i].max_lon : i \in n})]

\* the parent cell made from a non-empty kernel
KernelCell(kernel_cells, start_lat, start_lon, level_num) ==
    LET stride == Stride(level_num)
        n == DOMAIN kernel_cells
        kb == KernelBounds(kernel_cells)
        valid == SelectSeq(kernel_cells, LAMBDA c : _has_valid_tag(c.combined_tag))
        kernel_x == start_lat \div stride
        kernel_y == start_lon \div stride
    IN  [key |-> <<kernel_x, kernel_y>>, x |-> kernel_x, y |-> kernel_y,
         min_lat |-> kb.min_lat, max_lat |-> kb.max_lat,
         min_lon |-> kb.min_lon, max_lon |-> kb.max_lon,
         combined_tag |-> Flatten([i \in DOMAIN valid |-> valid[i].combined_tag]),
         level |-> level_num,
         leaves |-> UNION {kernel_cells[i].leaves : i \in n}]

RECURSIVE Kernels(_, _, _, _, _)
\* the two outer loops of create_next_level, window w of nLat * nLon
Kernels(next_level, current_level, level_num, w, dims) ==
    LET stride == Stride(level_num)
        kernel_size == Pow2(level_num)
        nLat == dims[1]
        nLon == dims[2]
        start_lat == dims[3] + (w \div nLon) * stride
        start_lon == dims[4] + (w % nLon) * stride
        kernel_cells == KernelCells(current_level, start_lat, start_lon, kernel_size)
        nl == IF kernel_cells = << >> THEN next_level
              ELSE DictSet(next_level,
                           KernelCell(kernel_cells, start_lat, start_lon, level_num))
    IN  IF w >= nLat * nLon THEN next_level
        ELSE Kernels(nl, current_level, level_num, w + 1, dims)

\* faulty variant of create_next_level: the windows are aligned to key 0, not
\* to the smallest key of the level
create_next_level_aligned(current_level, level_num) ==
    LET stride == Stride(level_num)
        max_lat == SetMax({current_level[i].key[1] : i \in DOMAIN current_level})
        max_lon == SetMax({current_level[i].key[2] : i \in DOMAIN current_level})
        nLat == (max_lat \div stride) + 1
        nLon == (max_lon \div stride) + 1
    IN  Normalize(Kernels(<< >>, current_level, level_num, 0, <<nLat, nLon, 0, 0>>))

create_next_level(current_level, level_num) ==
    LET stride == Stride(level_num)
        lats == {current_level[i].key[1] : i \in DOMAIN current_level}
        lons == {current_level[i].key[2] : i \in DOMAIN current_level}
        min_lat == SetMin(lats)
        max_lat == SetMax(lats)
        min_lon == SetMin(lons)
        max_lon == SetMax(lons)
        \* len(range(min, max + 1, stride))
        nLat == ((max_lat - min_lat) \div stride) + 1
        nLon == ((max_lon - min_lon) \div stride) + 1
    IN  Normalize(Kernels(<< >>, current_level, level_num, 0,
                          <<nLat, nLon, min_lat, min_lon>>))

\* one cell of the JSON document
DocCell(cell) ==
    [key |-> <<cell.x, cell.y>>,
     kernel_boundaries |-> [min_lat |-> cell.min_lat, max_lat |-> cell.max_lat,
                            min_lon |-> cell.min_lon, max_lon |-> cell.max_lon],
     combined_tag |-> cell.combined_tag]

RECURSIVE LevelInfo(_, _)
LevelInfo(level_info, level_data) ==
    IF level_data = << >> THEN level_info
    ELSE LevelInfo(DictSet(level_info, DocCell(Head(level_data))), Tail(level_data))

\* the document: levels[L + 1] is results["levels"][str(L)]
save_results(lvls) ==
    [metadata |-> [grid_delta |-> grid_delta, total_levels |-> Len(lvls)],
     levels |-> [l \in DOMAIN lvls |-> LevelInfo(<< >>, lvls[l])]]

\* -------------------------------------------------------------- provider
\* SummaryProvider.summarize_batch is external: a call either raises or
\* returns a dict from some of the ordinals 0..n-1 to a summary
Kinds == {"ok", "empty"}
Responses(n) == UNION {[S -> Kinds] : S \in SUBSET (0..(n - 1))}
Faulty(resp, n) == DOMAIN resp # 0..(n - 1) \/ \E i \in DOMAIN resp : resp[i] = "empty"
\* the dict returned for a call: ordinal |-> summary text
Summaries(descriptions, resp) ==
    [i \in DOMAIN resp |-> SummaryOf(descriptions[i + 1], resp[i])]

\* ----------------------------------------------------------------- state
VARIABLES
    args,       \* tags_data, custom boundaries, batch_size of the build
    pc,         \* where the running build or update is
    levels,     \* summarize_data: levels (levels[L + 1] is level L)
    level_num,  \* summarize_data: level_num
    pass,       \* the running summarization pass: eligible cells, batch_idx
    inflight,   \* the provider calls being awaited
    summaries,  \* the dict the last provider call returned
    doc,        \* the document returned by the build / written by an update
    results,    \* update_with_new_tag: results
    upd,        \* update_with_new_tag: locals
    log,        \* history: provider calls and their outcomes in this run
    faults,     \* history: provider calls that raised or answered partially
    updates,    \* history: updates started
    derived,    \* history: <<L, key, leaf>> for every cell the build derived
    tasks       \* two updates run as tasks on one in-memory document

vars == <<args, pc, levels, level_num, pass, inflight, summaries, doc, results,
          upd, log, faults, updates, derived, tasks>>

\* the tasks of two updates started on the same document
ConcurrentTasks == {1, 2}
NoTask == [pc |-> "idle", key |-> <<0, 0>>, level_num |-> 0, awaiting |-> << >>]

TagNames == <<"t1", "t2", "t3", "t4">>
UpdNames == <<"u1", "u2", "u3", "u4">>

\* tag lists of length n: (lat, lon) from positions, text by place in the list
TagLists(n, positions) ==
    {[i \in 1..n |-> [lat |-> f[i][1], lon |-> f[i][2], text |-> TagText(TagNames[i])]] :
        f \in [1..n -> positions]}

NoUpd == [lat |-> 0, lon |-> 0, tag_text |-> << >>, normalized_x |-> 0,
          normalized_y |-> 0, level_num |-> 0, created |-> FALSE]
NoPass == [cells |-> << >>, batch_idx |-> 0, level |-> 0]
NoDoc == [metadata |-> [grid_delta |-> grid_delta, total_levels |-> 0], levels |-> << >>]

\* nothing has run yet
Idle ==
    /\ pc = "start"
    /\ levels = << >>
    /\ level_num = 1
    /\ pass = NoPass
    /\ inflight = << >>
    /\ summaries = << >>
    /\ doc = NoDoc
    /\ results = NoDoc
    /\ upd = NoUpd
    /\ log = << >>
    /\ faults = 0
    /\ updates = 0
    /\ derived = {}
    /\ tasks = [t \in ConcurrentTasks |-> NoTask]

\* the state before summarize_data runs on tag lists of at most max tags
InitWith(max, positions) ==
    /\ args \in [tags_data : UNION {TagLists(n, positions) : n \in 0..max},
                 custom : CustomBoundaries,
                 batch_size : BatchSizes]
    /\ Idle

\* the example run: grid_delta is 0.01 degrees, so one unit is 0.005 degrees;
\* coordinates are counted from (28.6000, 77.2000) and rounded down to the
\* unit, which keeps int((coord - min) / grid_delta) because the minimum is on
\* the unit lattice.  cafe (28.6000, 77.2000), bar (28.6005, 77.2003), park
\* (28.6100, 77.2100)
ExampleTags ==
    <<[lat |-> 0, lon |-> 0, text |-> TagText("cafe")],
      [lat |-> 0, lon |-> 0, text |-> TagText("bar")],
      [lat |-> 2, lon |-> 2, text |-> TagText("park")]>>

\* documents for two concurrent updates: boundaries computed from the tags
InitConcurrent ==
    /\ InitWith(MaxBuildTags, UpdatePositions)
    /\ args.batch_size = 2
    /\ args.custom = NoBoundaries

InitExample ==
    /\ args \in [tags_data : {ExampleTags}, custom : {NoBoundaries},
                 batch_size : BatchSizes]
    /\ Idle

Init == InitWith(MaxTags, TagPositions)
InitBuild == InitWith(MaxBuildTags, BuildPositions)
\* tag lists at two near positions with the larger batch size; a custom
\* boundary only with the empty tag list, which gives an empty level 0
InitUpdate ==
    /\ InitWith(MaxBuildTags, UpdatePositions)
    /\ args.batch_size = 2
    /\ args.custom # NoBoundaries => args.tags_data = << >>

\* ev at batch idx of the pass over level; n cells are eligible in the pass
Event(ev, level, idx, n) == [ev |-> ev, level |-> level, idx |-> idx, n |-> n]

\* summarize_cell_tags: indices of the cells with several tags, in dict order
cells_with_multiple_tags(grid) ==
    SelectSeq([i \in 1..Len(grid) |-> i],
              LAMBDA i : _has_multiple_tags(grid[i].combined_tag))

\* batch_summarize_level: indices of the cells with a valid tag, in dict order
cells_with_tags(level_data) ==
    SelectSeq([i \in 1..Len(level_data) |-> i],
              LAMBDA i : _has_valid_tag(level_data[i].combined_tag))

\* ----------------------------------------------------------------- build
\* summarize_data up to the first batch of summarize_cell_tags
BuildStart ==
    /\ pc = "start"
    /\ LET tags == args.tags_data
           boundaries == define_boundaries(tags, CustomArg(args.custom))
       IN  IF boundaries = BoundaryError
           THEN /\ pc' = "failed"
                /\ UNCHANGED <<levels, pass>>
           ELSE LET base_grid == create_base_grid(tags, boundaries)
                IN  /\ levels' = <<base_grid>>
                    /\ pass' = [cells |-> cells_with_multiple_tags(base_grid),
                                batch_idx |-> 0, level |-> -1]
                    /\ pc' = "cell_pass"
    /\ UNCHANGED <<tasks, args, level_num, inflight, summaries, doc, results, upd, log,
                   faults, updates, derived>>

PassPcs == {"cell_pass", "level_pass", "final_pass"}

\* faulty variant of Batch: the slice takes one cell too many
BatchInclusive(p, batch_size) ==
    SubSeq(p.cells, p.batch_idx + 1,
           IF p.batch_idx + batch_size + 1 < Len(p.cells) THEN p.batch_idx + batch_size + 1
           ELSE Len(p.cells))

\* batch = cells[batch_idx : batch_idx + batch_size]
Batch(p, batch_size) ==
    SubSeq(p.cells, p.batch_idx + 1,
           IF p.batch_idx + batch_size < Len(p.cells) THEN p.batch_idx + batch_size
           ELSE Len(p.cells))

\* the descriptions of one batch
BatchDescriptions(level_data, batch, level) ==
    [i \in DOMAIN batch |->
        IF level = -1 THEN CellDescription(level_data[batch[i]].combined_tag)
        ELSE LevelDescription(level_data[batch[i]].combined_tag)]

\* faulty variant of Ordinal: the 1-based ordinal the provider prompt uses
OrdinalOneBased(i) == i

\* for i, cell in enumerate(batch): if str(i) in summaries: cell.combined_tag = ...
\* the ordinal of the i-th cell of a batch
Ordinal(i) == i - 1
ApplySummaries(level_data, batch, sums) ==
    [c \in DOMAIN level_data |->
        IF \E i \in DOMAIN batch : batch[i] = c /\ Ordinal(i) \in DOMAIN sums
        THEN [level_data[c] EXCEPT !.combined_tag =
                 sums[Ordinal(CHOOSE i \in DOMAIN batch : batch[i] = c)]]
        ELSE level_data[c]]

\* faulty variant of PassCall: the call is started without awaiting the one
\* before it
PassCallGathered ==
    /\ pc \in PassPcs
    /\ Len(inflight) < 3
    /\ pass.batch_idx < Len(pass.cells)
    /\ LET batch == Batch(pass, args.batch_size)
       IN  inflight' = Append(inflight,
                              [descriptions |-> BatchDescriptions(levels[level_num], batch, pass.level),
                               level |-> pass.level,
                               kernel_size |-> IF pass.level > 0 THEN Pow2(pass.level) ELSE 1])
    /\ log' = Append(log, Event("call", pass.level, pass.batch_idx, Len(pass.cells)))
    /\ UNCHANGED <<tasks, args, pc, levels, level_num, pass, summaries, doc, results, upd,
                   faults, updates, derived>>

\* a batch of summarize_cell_tags / batch_summarize_level is sent
PassCall ==
    /\ pc \in PassPcs
    /\ inflight = << >>
    /\ pass.batch_idx < Len(pass.cells)
    /\ LET batch == Batch(pass, args.batch_size)
       IN  inflight' = <<[descriptions |-> BatchDescriptions(levels[level_num], batch, pass.level),
                        level |-> pass.level,
                        kernel_size |-> IF pass.level > 0 THEN Pow2(pass.level) ELSE 1]>>
    /\ log' = Append(log, Event("call", pass.level, pass.batch_idx, Len(pass.cells)))
    /\ UNCHANGED <<tasks, args, pc, levels, level_num, pass, summaries, doc, results, upd,
                   faults, updates, derived>>

\* the awaited call returns: the summaries present are written to the cells
PassReturn ==
    /\ pc \in PassPcs
    /\ inflight # << >>
    /\ \E resp \in Responses(Len(inflight[1].descriptions)) :
         /\ Faulty(resp, Len(inflight[1].descriptions)) => faults < MaxFaults
         /\ faults' = IF Faulty(resp, Len(inflight[1].descriptions)) THEN faults + 1 ELSE faults
         /\ summaries' = Summaries(inflight[1].descriptions, resp)
         /\ levels' = [levels EXCEPT ![level_num] =
                          ApplySummaries(@, Batch(pass, args.batch_size), summaries')]
    /\ pass' = [pass EXCEPT !.batch_idx = @ + args.batch_size]
    /\ inflight' = << >>
    /\ log' = Append(log, Event("return", pass.level, pass.batch_idx, Len(pass.cells)))
    /\ UNCHANGED <<tasks, args, pc, level_num, doc, results, upd, updates, derived>>

\* faulty variant of PassRaise: no except clause, the exception ends the build
PassRaiseUncaught ==
    /\ pc \in PassPcs
    /\ inflight # << >>
    /\ faults < MaxFaults
    /\ faults' = faults + 1
    /\ inflight' = << >>
    /\ pc' = "failed"
    /\ log' = Append(log, Event("raise", pass.level, pass.batch_idx, Len(pass.cells)))
    /\ UNCHANGED <<tasks, args, levels, level_num, pass, summaries, doc, results, upd,
                   updates, derived>>

\* faulty variant of PassRaise: the failed batch is sent again
PassRaiseRetry ==
    /\ pc \in PassPcs
    /\ inflight # << >>
    /\ faults < MaxFaults
    /\ faults' = faults + 1
    /\ inflight' = << >>
    /\ log' = Append(log, Event("raise", pass.level, pass.batch_idx, Len(pass.cells)))
    /\ UNCHANGED <<tasks, args, pc, levels, level_num, pass, summaries, doc, results, upd,
                   updates, derived>>

\* the awaited call raises: except Exception, the loop goes on
PassRaise ==
    /\ pc \in PassPcs
    /\ inflight # << >>
    /\ faults < MaxFaults
    /\ faults' = faults + 1
    /\ pass' = [pass EXCEPT !.batch_idx = @ + args.batch_size]
    /\ inflight' = << >>
    /\ log' = Append(log, Event("raise", pass.level, pass.batch_idx, Len(pass.cells)))
    /\ UNCHANGED <<tasks, args, pc, levels, level_num, summaries, doc, results, upd,
                   updates, derived>>

\* faulty variant of PassOver: the pass returns as soon as no call is pending
PassOverEarly == pc \in PassPcs /\ inflight = << >>

\* the loop over the batches of a pass is over
PassOver == pc \in PassPcs /\ inflight = << >> /\ pass.batch_idx >= Len(pass.cells)

\* faulty variant of LoopContinues: while len(current_level) > 0
LoopContinuesNonEmpty(current_level) == Len(current_level) > 0

\* faulty variant of LoopContinues: the loop stops one cell early
LoopContinuesEarlyStop(current_level) == Len(current_level) > 2

\* while len(current_level) > 1
LoopContinues(current_level) == Len(current_level) > 1

\* the head of the while loop of summarize_data: the next pass to run
LoopHead(current_level, ln) ==
    IF LoopContinues(current_level)
    THEN /\ pc' = "level_pass"
         /\ pass' = [cells |-> cells_with_tags(current_level),
                     batch_idx |-> 0, level |-> ln - 1]
    ELSE /\ pc' = "final_pass"
         /\ pass' = [cells |-> IF Len(current_level) > 0
                               THEN cells_with_tags(current_level) ELSE << >>,
                     batch_idx |-> 0, level |-> ln - 1]

\* summarize_cell_tags returns
CellPassDone ==
    /\ pc = "cell_pass"
    /\ PassOver
    /\ LoopHead(levels[level_num], level_num)
    /\ UNCHANGED <<tasks, args, levels, level_num, inflight, summaries, doc, results, upd,
                   log, faults, updates, derived>>

\* batch_summarize_level returns inside the loop: the next level is derived
LevelPassDone ==
    /\ pc = "level_pass"
    /\ PassOver
    /\ LET next_level == create_next_level(levels[level_num], level_num)
       IN  IF next_level # << >>
           THEN /\ levels' = Append(levels, next_level)
                /\ level_num' = level_num + 1
                /\ LoopHead(next_level, level_num + 1)
           ELSE /\ UNCHANGED <<levels, level_num>>
                /\ pc' = "final_pass"
                /\ pass' = [cells |-> cells_with_tags(levels[level_num]),
                            batch_idx |-> 0, level |-> level_num - 1]
    /\ UNCHANGED <<tasks, args, inflight, summaries, doc, results, upd, log, faults,
                   updates, derived>>

\* history: which level-0 cells each derived cell was built from
Derived(lvls) ==
    UNION {UNION {{<<l - 1, <<lvls[l][c].x, lvls[l][c].y>>, leaf>> :
                      leaf \in lvls[l][c].leaves} : c \in DOMAIN lvls[l]} :
           l \in DOMAIN lvls}

\* the final level is summarized: save_results, the document is returned
FinalPassDone ==
    /\ pc = "final_pass"
    /\ PassOver
    /\ doc' = save_results(levels)
    /\ derived' = Derived(levels)
    /\ pc' = "built"
    /\ UNCHANGED <<tasks, args, levels, level_num, pass, inflight, summaries, results, upd,
                   log, faults, updates>>

\* ---------------------------------------------------------------- update
UpdStartPcs == {"built", "updated", "u_failed"}

\* the level-0 index pair of a location: lines 467-479
LocateCell(level_0, lat, lon, gd) ==
    LET min_lat == SetMin({level_0[i].kernel_boundaries.min_lat : i \in DOMAIN level_0})
        min_lon == SetMin({level_0[i].kernel_boundaries.min_lon : i \in DOMAIN level_0})
        grid_lat == Trunc(lat - min_lat, gd)
        grid_lon == Trunc(lon - min_lon, gd)
        min_x == SetMin({level_0[i].key[1] : i \in DOMAIN level_0})
        min_y == SetMin({level_0[i].key[2] : i \in DOMAIN level_0})
    IN  [min_lat |-> min_lat, min_lon |-> min_lon,
         grid_lat |-> grid_lat, grid_lon |-> grid_lon,
         normalized_x |-> grid_lat - min_x, normalized_y |-> grid_lon - min_y]

\* faulty variant of MergeOrCreate: a merge replaces the text of the cell
MergeOrCreateOverwrite(level_0, loc, tag_text, gd) ==
    LET cell_key == <<loc.normalized_x, loc.normalized_y>>
        fresh == [key |-> cell_key,
                  kernel_boundaries |->
                     [min_lat |-> loc.min_lat + loc.grid_lat * gd,
                      max_lat |-> loc.min_lat + (loc.grid_lat + 1) * gd,
                      min_lon |-> loc.min_lon + loc.grid_lon * gd,
                      max_lon |-> loc.min_lon + (loc.grid_lon + 1) * gd],
                  combined_tag |-> tag_text]
    IN  IF HasKey(level_0, cell_key)
        THEN [level_0 EXCEPT ![IndexOf(level_0, cell_key)].combined_tag = tag_text]
        ELSE Append(level_0, fresh)

\* merge into the cell under cell_key or create it: lines 486-521
MergeOrCreate(level_0, loc, tag_text, gd) ==
    LET cell_key == <<loc.normalized_x, loc.normalized_y>>
        existing_tag == Get(level_0, cell_key).combined_tag
        combined_tag == IF HasKey(level_0, cell_key) /\ existing_tag # << >>
                        THEN existing_tag \o tag_text ELSE tag_text
        fresh == [key |-> cell_key,
                  kernel_boundaries |->
                     [min_lat |-> loc.min_lat + loc.grid_lat * gd,
                      max_lat |-> loc.min_lat + (loc.grid_lat + 1) * gd,
                      min_lon |-> loc.min_lon + loc.grid_lon * gd,
                      max_lon |-> loc.min_lon + (loc.grid_lon + 1) * gd],
                  combined_tag |-> combined_tag]
    IN  IF HasKey(level_0, cell_key)
        THEN [level_0 EXCEPT ![IndexOf(level_0, cell_key)].combined_tag = combined_tag]
        ELSE Append(level_0, fresh)

\* faulty variant of EmptyLevelOutcome: the update returns the document
EmptyLevelReturns == "updated"

\* raise ValueError("No existing cells found in Level 0")
EmptyLevelOutcome == "u_failed"

\* update_with_new_tag up to the level-0 call: the document is loaded, the
\* cell is located and merged or created
UpdateStart ==
    /\ pc \in UpdStartPcs
    /\ updates < MaxUpdates
    /\ updates' = updates + 1
    /\ log' = << >>
    /\ \E lat \in UpdLats, lon \in UpdLons :
         LET gd == doc.metadata.grid_delta
             level_0 == doc.levels[1]
             tag_text == TagText(UpdNames[updates + 1])
         IN  IF level_0 = << >>
             THEN /\ pc' = EmptyLevelOutcome
                  /\ results' = doc
                  /\ upd' = [NoUpd EXCEPT !.lat = lat, !.lon = lon, !.tag_text = tag_text]
             ELSE LET loc == LocateCell(level_0, lat, lon, gd)
                  IN  /\ pc' = "u_level0"
                      /\ results' = [doc EXCEPT !.levels[1] =
                                        MergeOrCreate(level_0, loc, tag_text, gd)]
                      /\ upd' = [lat |-> lat, lon |-> lon, tag_text |-> tag_text,
                                 normalized_x |-> loc.normalized_x,
                                 normalized_y |-> loc.normalized_y,
                                 level_num |-> 0,
                                 created |-> ~HasKey(level_0,
                                        <<loc.normalized_x, loc.normalized_y>>)]
    /\ UNCHANGED <<tasks, args, levels, level_num, pass, inflight, summaries, doc, faults,
                   derived>>

CellKey == <<upd.normalized_x, upd.normalized_y>>
\* the text of the located cell after the merge
CombinedTag == Get(results.levels[1], CellKey).combined_tag

\* if ';' in combined_tag: the level-0 cell is sent to the provider
UpdLevel0Call ==
    /\ pc = "u_level0"
    /\ inflight = << >>
    /\ _has_multiple_tags(CombinedTag)
    /\ inflight' = <<[descriptions |-> <<LevelDescription(CombinedTag)>>,
                    level |-> -1, kernel_size |-> 1]>>
    /\ log' = Append(log, Event("call", 0, 0, 1))
    /\ UNCHANGED <<tasks, args, pc, levels, level_num, pass, summaries, doc, results, upd,
                   faults, updates, derived>>

\* a single fragment: no call, on to the loop over the higher levels
UpdLevel0Skip ==
    /\ pc = "u_level0"
    /\ inflight = << >>
    /\ ~_has_multiple_tags(CombinedTag)
    /\ pc' = "u_climb"
    /\ upd' = [upd EXCEPT !.level_num = 1]
    /\ UNCHANGED <<tasks, args, levels, level_num, pass, inflight, summaries, doc, results,
                   log, faults, updates, derived>>

\* faulty variant of SetSummary: every cell of the level takes summaries["0"]
SetSummaryAll(level_data, key, sums) ==
    IF 0 \in DOMAIN sums
    THEN [i \in DOMAIN level_data |-> [level_data[i] EXCEPT !.combined_tag = sums[0]]]
    ELSE level_data

\* if "0" in summaries: the cell under key takes summaries["0"]
SetSummary(level_data, key, sums) ==
    IF 0 \in DOMAIN sums
    THEN [level_data EXCEPT ![IndexOf(level_data, key)].combined_tag = sums[0]]
    ELSE level_data

UpdLevel0Return ==
    /\ pc = "u_level0"
    /\ inflight # << >>
    /\ \E resp \in Responses(1) :
         /\ Faulty(resp, 1) => faults < MaxFaults
         /\ faults' = IF Faulty(resp, 1) THEN faults + 1 ELSE faults
         /\ summaries' = Summaries(inflight[1].descriptions, resp)
         /\ results' = [results EXCEPT !.levels[1] = SetSummary(@, CellKey, summaries')]
    /\ inflight' = << >>
    /\ pc' = "u_climb"
    /\ upd' = [upd EXCEPT !.level_num = 1]
    /\ log' = Append(log, Event("return", 0, 0, 1))
    /\ UNCHANGED <<tasks, args, levels, level_num, pass, doc, updates, derived>>

\* kernel_key at the level the loop is at
KernelKey(level) ==
    <<upd.normalized_x \div Pow2(level), upd.normalized_y \div Pow2(level)>>

\* the texts of the level-0 cells that map into the kernel: lines 555-560
UpdKernelCells(level_0, level, kernel_key) ==
    LET inside == SelectSeq(level_0, LAMBDA c :
                     /\ c.key[1] \div Pow2(level) = kernel_key[1]
                     /\ c.key[2] \div Pow2(level) = kernel_key[2])
    IN  [i \in DOMAIN inside |-> inside[i].combined_tag]

InLoop == pc = "u_climb" /\ inflight = << >> /\ upd.level_num < Len(results.levels)

\* kernel_key in level_data: the kernel is sent to the provider
UpdKernelCall ==
    /\ InLoop
    /\ HasKey(results.levels[upd.level_num + 1], KernelKey(upd.level_num))
    /\ LET kernel_cells == UpdKernelCells(results.levels[1], upd.level_num,
                                          KernelKey(upd.level_num))
       IN  IF kernel_cells # << >>
           THEN /\ inflight' = <<[descriptions |-> <<KernelDescription(kernel_cells)>>,
                                level |-> upd.level_num,
                                kernel_size |-> Pow2(upd.level_num)]>>
                /\ log' = Append(log, Event("call", upd.level_num, 0, 1))
                /\ upd' = upd
           ELSE /\ upd' = [upd EXCEPT !.level_num = @ + 1]
                /\ UNCHANGED <<inflight, log>>
    /\ UNCHANGED <<tasks, args, pc, levels, level_num, pass, summaries, doc, results,
                   faults, updates, derived>>

\* kernel_key not in level_data: a message is printed, the loop goes on
UpdKernelMissing ==
    /\ InLoop
    /\ ~HasKey(results.levels[upd.level_num + 1], KernelKey(upd.level_num))
    /\ upd' = [upd EXCEPT !.level_num = @ + 1]
    /\ log' = Append(log, Event("miss", upd.level_num, 0, 1))
    /\ UNCHANGED <<tasks, args, pc, levels, level_num, pass, inflight, summaries, doc,
                   results, faults, updates, derived>>

UpdKernelReturn ==
    /\ pc = "u_climb"
    /\ inflight # << >>
    /\ \E resp \in Responses(1) :
         /\ Faulty(resp, 1) => faults < MaxFaults
         /\ faults' = IF Faulty(resp, 1) THEN faults + 1 ELSE faults
         /\ summaries' = Summaries(inflight[1].descriptions, resp)
         /\ results' = [results EXCEPT !.levels[upd.level_num + 1] =
                           SetSummary(@, KernelKey(upd.level_num), summaries')]
    /\ inflight' = << >>
    /\ upd' = [upd EXCEPT !.level_num = @ + 1]
    /\ log' = Append(log, Event("return", upd.level_num, 0, 1))
    /\ UNCHANGED <<tasks, args, pc, levels, level_num, pass, doc, updates, derived>>

\* an awaited call of the update raises: nothing catches it, the update ends
\* with the exception and writes nothing
UpdRaise ==
    /\ pc \in {"u_level0", "u_climb"}
    /\ inflight # << >>
    /\ faults < MaxFaults
    /\ faults' = faults + 1
    /\ inflight' = << >>
    /\ pc' = "u_failed"
    /\ log' = Append(log, Event("raise", upd.level_num, 0, 1))
    /\ UNCHANGED <<tasks, args, levels, level_num, pass, summaries, doc, results, upd,
                   updates, derived>>

\* the loop is over: the document is written to output_file and returned
UpdFinish ==
    /\ pc = "u_climb"
    /\ inflight = << >>
    /\ upd.level_num >= Len(results.levels)
    /\ doc' = results
    /\ pc' = "updated"
    /\ UNCHANGED <<tasks, args, levels, level_num, pass, inflight, summaries, results, upd,
                   log, faults, updates, derived>>

\* ------------------------------------------------------ concurrent updates
\* Two calls of update_with_new_tag run as asyncio tasks on the same dict
\* (existing_results is used in place, line 456).  A task gives up control
\* only at an await of the provider, so one action is the code from one await
\* (or from the entry) to the next await (or to the return).  results is the
\* shared dict.
TaskLats == {0, 3}

\* kernel_key at a level for the level-0 cell under key
TaskKernelKey(key, level) == <<key[1] \div Pow2(level), key[2] \div Pow2(level)>>

RECURSIVE NextKernelLevel(_, _, _)
\* the for loop over the higher levels from level from on: the first level at
\* which the provider is called, or len(levels) when the loop ends
NextKernelLevel(d, key, from) ==
    IF from >= Len(d.levels) THEN from
    ELSE IF /\ HasKey(d.levels[from + 1], TaskKernelKey(key, from))
            /\ UpdKernelCells(d.levels[1], from, TaskKernelKey(key, from)) # << >>
         THEN from
         ELSE NextKernelLevel(d, key, from + 1)

\* the task after it ran the loop on d from level from to its next await
Climb(d, key, from) ==
    LET l == NextKernelLevel(d, key, from)
    IN  IF l >= Len(d.levels)
        THEN [pc |-> "done", key |-> key, level_num |-> l, awaiting |-> << >>]
        ELSE [pc |-> "c_climb", key |-> key, level_num |-> l,
              awaiting |-> <<[descriptions |->
                                <<KernelDescription(UpdKernelCells(d.levels[1], l,
                                                     TaskKernelKey(key, l)))>>,
                             level |-> l, kernel_size |-> Pow2(l)]>>]

\* a task enters update_with_new_tag and runs to its first await
TaskStart(t) ==
    /\ pc \in {"built", "concurrent"}
    /\ tasks[t].pc = "idle"
    /\ pc' = "concurrent"
    /\ \E lat \in TaskLats :
         LET base == IF pc = "built" THEN doc ELSE results
             gd == base.metadata.grid_delta
             level_0 == base.levels[1]
             tag_text == TagText(UpdNames[t])
         IN  IF level_0 = << >>
             THEN /\ results' = base
                  /\ tasks' = [tasks EXCEPT ![t].pc = "failed"]
             ELSE LET loc == LocateCell(level_0, lat, 0, gd)
                      key == <<loc.normalized_x, loc.normalized_y>>
                      merged == [base EXCEPT !.levels[1] =
                                    MergeOrCreate(level_0, loc, tag_text, gd)]
                      combined_tag == Get(merged.levels[1], key).combined_tag
                  IN  /\ results' = merged
                      /\ tasks' = [tasks EXCEPT ![t] =
                            IF _has_multiple_tags(combined_tag)
                            THEN [pc |-> "c_level0", key |-> key, level_num |-> 0,
                                  awaiting |-> <<[descriptions |->
                                                    <<LevelDescription(combined_tag)>>,
                                                 level |-> -1, kernel_size |-> 1]>>]
                            ELSE Climb(merged, key, 1)]
    /\ UNCHANGED <<args, levels, level_num, pass, inflight, summaries, doc, upd, log,
                   faults, updates, derived>>

\* the call a task awaits returns: the task writes the summary and runs to
\* its next await
TaskReturn(t) ==
    /\ pc = "concurrent"
    /\ tasks[t].awaiting # << >>
    /\ \E resp \in Responses(1) :
         /\ Faulty(resp, 1) => faults < MaxFaults
         /\ faults' = IF Faulty(resp, 1) THEN faults + 1 ELSE faults
         /\ summaries' = Summaries(tasks[t].awaiting[1].descriptions, resp)
         /\ LET l == tasks[t].level_num
                key == IF l = 0 THEN tasks[t].key ELSE TaskKernelKey(tasks[t].key, l)
                written == [results EXCEPT !.levels[l + 1] = SetSummary(@, key, summaries')]
            IN  /\ results' = written
                /\ tasks' = [tasks EXCEPT ![t] = Climb(written, tasks[t].key, l + 1)]
    /\ UNCHANGED <<args, pc, levels, level_num, pass, inflight, doc, upd, log,
                   updates, derived>>

\* the call a task awaits raises: the exception ends the task
TaskRaise(t) ==
    /\ pc = "concurrent"
    /\ tasks[t].awaiting # << >>
    /\ faults < MaxFaults
    /\ faults' = faults + 1
    /\ tasks' = [tasks EXCEPT ![t].pc = "failed", ![t].awaiting = << >>]
    /\ UNCHANGED <<args, pc, levels, level_num, pass, inflight, summaries, doc,
                   results, upd, log, updates, derived>>

\* ------------------------------------------------------------------ spec
BuildNext ==
    \/ BuildStart
    \/ PassCall
    \/ PassReturn
    \/ PassRaise
    \/ CellPassDone
    \/ LevelPassDone
    \/ FinalPassDone

UpdateNext ==
    \/ UpdateStart
    \/ UpdLevel0Call
    \/ UpdLevel0Skip
    \/ UpdLevel0Return
    \/ UpdKernelCall
    \/ UpdKernelMissing
    \/ UpdKernelReturn
    \/ UpdRaise
    \/ UpdFinish

Next == BuildNext \/ UpdateNext

Spec == Init /\ [][Next]_vars

\* the build alone, from the larger set of tag lists
BuildSpec == InitBuild /\ [][BuildNext]_vars

\* builds from tags at two near positions, followed by updates
UpdateSpec == InitUpdate /\ [][Next]_vars
ExampleSpec == InitExample /\ [][BuildNext]_vars

ConcurrentNext ==
    \/ BuildNext
    \/ \E t \in ConcurrentTasks : TaskStart(t)
    \/ \E t \in ConcurrentTasks : TaskReturn(t)
    \/ \E t \in ConcurrentTasks : TaskRaise(t)

ConcurrentSpec == InitConcurrent /\ [][ConcurrentNext]_vars

\* ------------------------------------------------------------ properties
Last(q) == q[Len(q)]
Built == pc = "built"
InUpdate == pc \in {"u_level0", "u_climb"}
\* level L of a document
DocLevel(d, L) == d.levels[L + 1]
TopLevel(d) == Len(d.levels) - 1

\* C1: in a pyramid the build returns for a non-empty tag list, no level has more cells than the level
\* below it, and the last level has exactly one cell
C1_CardinalityContraction ==
    (Built /\ args.tags_data # << >>) =>
        /\ \A L \in 0..(TopLevel(doc) - 1) :
              Len(DocLevel(doc, L + 1)) <= Len(DocLevel(doc, L))
        /\ Len(DocLevel(doc, TopLevel(doc))) = 1

\* a built pyramid of four levels whose lower levels have as many cells as
\* level 0
C1_Witness ==
    /\ Built
    /\ TopLevel(doc) >= 3
    /\ Len(DocLevel(doc, 0)) >= 2
    /\ Len(DocLevel(doc, 1)) = Len(DocLevel(doc, 0))

\* the cells of level L - 1 inside the kernel window of the level-L cell
\* under key: windows are Pow2(L) wide and start at the minimum coordinate
ChildrenOf(d, L, key) ==
    SelectSeq(DocLevel(d, L - 1), LAMBDA c :
        /\ c.key[1] \div Pow2(L) = key[1]
        /\ c.key[2] \div Pow2(L) = key[2])

EnvelopeOf(cells) ==
    LET n == DOMAIN cells
    IN  [min_lat |-> SetMin({cells[i].kernel_boundaries.min_lat : i \in n}),
         max_lat |-> SetMax({cells[i].kernel_boundaries.max_lat : i \in n}),
         min_lon |-> SetMin({cells[i].kernel_boundaries.min_lon : i \in n}),
         max_lon |-> SetMax({cells[i].kernel_boundaries.max_lon : i \in n})]

\* every cell above level 0 has children and its bounds are their envelope
BoundsEnvelope(d) ==
    \A L \in 1..TopLevel(d) : \A i \in DOMAIN DocLevel(d, L) :
        LET cell == DocLevel(d, L)[i]
            children == ChildrenOf(d, L, cell.key)
        IN  /\ children # << >>
            /\ cell.kernel_boundaries = EnvelopeOf(children)

\* C5: in a pyramid the build returns, the bounds of every cell of level k+1
\* are the min/max envelope of the bounds of the level-k cells in its window
C5_BuildBoundsEnvelope == Built => BoundsEnvelope(doc)

\* a built pyramid with a cell that has two children whose bounds differ
C5_Witness ==
    /\ Built
    /\ \E L \in 1..TopLevel(doc) : \E i \in DOMAIN DocLevel(doc, L) :
          LET children == ChildrenOf(doc, L, DocLevel(doc, L)[i].key)
          IN  /\ Len(children) >= 2
              /\ children[1].kernel_boundaries # children[2].kernel_boundaries
              /\ DocLevel(doc, L)[i].kernel_boundaries # children[1].kernel_boundaries

\* a step of the build in which the awaited batch call ends with outcome ev
PassStep(ev) ==
    pc \in PassPcs /\ Len(log') = Len(log) + 1 /\ Last(log').ev = ev

HasRaised == \E i \in DOMAIN log : log[i].ev = "raise"

\* every batch that follows a sent batch of the same pass has been sent too
AllBatchesSent ==
    \A i \in DOMAIN log :
        (log[i].ev = "call" /\ log[i].idx + args.batch_size < log[i].n) =>
            \E j \in DOMAIN log :
                /\ j > i
                /\ log[j].ev = "call"
                /\ log[j].level = log[i].level
                /\ log[j].idx = log[i].idx + args.batch_size

\* C8: when the provider call of a batch raises during the build, the cells
\* keep their text and the pass goes on with the next batch; the build still
\* sends every later batch, derives the levels up to a single cell and
\* returns the document: a raise never takes the build to its failed end
C8_BuildFailedBatchNonFatal ==
    /\ [][PassStep("raise") =>
            /\ levels' = levels
            /\ pc' = pc
            /\ pass' = [pass EXCEPT !.batch_idx = @ + args.batch_size]]_vars
    /\ []((Built /\ HasRaised) =>
            /\ AllBatchesSent
            /\ Len(doc.levels) = Len(levels)
            /\ Len(DocLevel(doc, TopLevel(doc))) = 1)
    /\ [](HasRaised => pc \in PassPcs \cup {"built"})

\* the build returned a pyramid of several levels although the call of a
\* batch that was not the last of its pass had raised
C8_Witness ==
    /\ Built
    /\ TopLevel(doc) >= 1
    /\ \E i \in DOMAIN log :
          /\ log[i].ev = "raise"
          /\ log[i].idx + args.batch_size < log[i].n
          /\ \E j \in DOMAIN log : j > i /\ log[j].ev = "call" /\ log[j].level = log[i].level

\* C9: when a batch call of the build returns, every cell of the batch whose
\* ordinal is in the response takes the summary under that ordinal and every
\* cell whose ordinal is missing keeps its text
C9_MissingOrdinalKeepsText ==
    [][PassStep("return") =>
          LET batch == Batch(pass, args.batch_size)
          IN  \A i \in DOMAIN batch :
                 levels'[level_num][batch[i]].combined_tag =
                    IF (i - 1) \in DOMAIN summaries' THEN summaries'[i - 1]
                    ELSE levels[level_num][batch[i]].combined_tag]_vars

\* a batch of two cells was answered for ordinal 1 only: the second cell has
\* the summary, the first still has its fragments
C9_Witness ==
    /\ pc \in PassPcs
    /\ log # << >>
    /\ Last(log).ev = "return"
    /\ args.batch_size = 2
    /\ Last(log).idx + 2 <= Last(log).n
    /\ DOMAIN summaries = {1}
    /\ summaries[1] # << >>
    /\ levels[level_num][pass.cells[Last(log).idx + 2]].combined_tag = summaries[1]
    /\ levels[level_num][pass.cells[Last(log).idx + 1]].combined_tag # summaries[1]

\* a level-L kernel is Pow2(L) cells of level L - 1 wide, so it is
\* Pow2(1 + 2 + ... + L) level-0 cells wide
LeafWidth(L) == Pow2((L * (L + 1)) \div 2)
\* the key of the level-L cell whose kernel window contains a level-0 key
AncestorKey(L, key0) == <<key0[1] \div LeafWidth(L), key0[2] \div LeafWidth(L)>>
\* the cell under key at level L was derived from key0, or its window holds key0
IsAncestor(L, key, key0) ==
    <<L, key, key0>> \in derived \/ key = AncestorKey(L, key0)

\* the build derives every cell from level-0 cells inside its window
DerivedInsideWindow ==
    Built => \A t \in derived : t[2] = AncestorKey(t[1], t[3])

\* C2: during an update every cell other than the located level-0 cell and
\* its ancestors keeps the value it had before the update
C2_UpdateLocality ==
    InUpdate =>
        /\ \A i \in DOMAIN DocLevel(doc, 0) :
              DocLevel(doc, 0)[i].key # CellKey
                  => DocLevel(results, 0)[i] = DocLevel(doc, 0)[i]
        /\ \A L \in 1..TopLevel(doc) : \A i \in DOMAIN DocLevel(doc, L) :
              ~IsAncestor(L, DocLevel(doc, L)[i].key, CellKey)
                  => DocLevel(results, L)[i] = DocLevel(doc, L)[i]

\* C3: once the kernel key is absent at some level of an update, no provider
\* call follows and that level and the levels above it stay as they were
C3_StopsClimbing ==
    InUpdate =>
        \A i \in DOMAIN log :
            log[i].ev = "miss" =>
                /\ \A j \in DOMAIN log : j > i => log[j].ev # "call"
                /\ \A L \in log[i].level..TopLevel(doc) :
                      DocLevel(results, L) = DocLevel(doc, L)

Inside(lat, lon, kb) ==
    /\ kb.min_lat <= lat /\ lat < kb.max_lat
    /\ kb.min_lon <= lon /\ lon < kb.max_lon

\* C6: an update at a location inside the bounds of an existing level-0 cell
\* resolves to the key of that cell and merges into it
C6_SameLocationSameCell ==
    InUpdate =>
        \A i \in DOMAIN DocLevel(doc, 0) :
            Inside(upd.lat, upd.lon, DocLevel(doc, 0)[i].kernel_boundaries)
                => (CellKey = DocLevel(doc, 0)[i].key /\ ~upd.created)

\* C7: a provider call that raises during an update is caught: the update
\* does not end with the exception
C7_UpdateProviderFailureNonFatal ==
    ~(pc = "u_failed" /\ log # << >> /\ Last(log).ev = "raise")

\* C10: no cell of a document that the build returned or an update wrote
\* holds raw text of several fragments
C10_AllSummarized ==
    pc \in {"built", "updated"} =>
        \A L \in 0..TopLevel(doc) : \A i \in DOMAIN DocLevel(doc, L) :
            ~_has_multiple_tags(DocLevel(doc, L)[i].combined_tag)

\* C11: a cell whose text is a single fragment is in no batch the build sends
\* to the provider
C11_SingleFragmentNeverSent ==
    (pc \in PassPcs /\ inflight # << >>) =>
        LET batch == Batch(pass, args.batch_size)
        IN  \A i \in DOMAIN batch :
                _has_multiple_tags(levels[level_num][batch[i]].combined_tag)

\* C12: in a pyramid the build returns, every level with more than one cell
\* is followed by a level with strictly fewer cells
C12_StrictContraction ==
    Built =>
        \A k \in 0..(TopLevel(doc) - 1) :
            Len(DocLevel(doc, k)) > 1
                => Len(DocLevel(doc, k + 1)) < Len(DocLevel(doc, k))

\* C13: when the level derived from a level with more than one cell has no
\* fewer cells, the build derives no further level: a level that did not
\* contract is the last one
C13_StopsWhenNotContracting ==
    \A l \in 1..(Len(levels) - 1) :
        (Len(levels[l]) > 1 /\ Len(levels[l + 1]) >= Len(levels[l]))
            => l + 1 = Len(levels)

\* the tag whose text is fragment f of the cell lies in the cell's rectangle
TagInside(tag, cell) ==
    /\ cell.min_lat <= tag.lat /\ tag.lat < cell.max_lat
    /\ cell.min_lon <= tag.lon /\ tag.lon < cell.max_lon

\* create_base_grid put every tag in a cell whose bounds hold its coordinates
BaseGridHoldsTags ==
    (pc = "cell_pass" /\ log = << >>) =>
        \A i \in DOMAIN args.tags_data : \A c \in DOMAIN levels[1] :
            (\E f \in DOMAIN levels[1][c].combined_tag :
                 <<levels[1][c].combined_tag[f]>> = args.tags_data[i].text)
                => TagInside(args.tags_data[i], levels[1][c])

\* the cell an update located (merged into or created) holds the new tag
UpdateCellHoldsTag ==
    (pc = "u_level0" /\ log = << >>) =>
        Inside(upd.lat, upd.lon, Get(results.levels[1], CellKey).kernel_boundaries)

\* C14: every tag lies inside the bounds of the level-0 cell it is bucketed
\* into, in create_base_grid and in the cell location of an update
C14_TagInsideItsCell == BaseGridHoldsTags /\ UpdateCellHoldsTag

\* C15: in a document the build returns, the minimum x and the minimum y of
\* the cell keys of every non-empty level are 0, and the keys of a level are
\* the dict coordinates of its cells all shifted by the same amount
C15_LevelsNormalized ==
    Built =>
        \A l \in DOMAIN levels :
            /\ Len(doc.levels[l]) = Len(levels[l])
            /\ levels[l] # << >> =>
                  /\ SetMin({doc.levels[l][i].key[1] : i \in DOMAIN doc.levels[l]}) = 0
                  /\ SetMin({doc.levels[l][i].key[2] : i \in DOMAIN doc.levels[l]}) = 0
            /\ \A i, j \in DOMAIN levels[l] :
                  /\ doc.levels[l][i].key[1] - doc.levels[l][j].key[1]
                        = levels[l][i].key[1] - levels[l][j].key[1]
                  /\ doc.levels[l][i].key[2] - doc.levels[l][j].key[2]
                        = levels[l][i].key[2] - levels[l][j].key[2]

\* a pyramid of three or more levels was returned in which level 0 or level
\* 1 holds several cells that all needed a shift, at different offsets
C15_Witness ==
    /\ Built
    /\ Len(levels) >= 3
    /\ \E l \in {1, 2} :
          /\ Len(levels[l]) >= 2
          /\ \A i \in DOMAIN levels[l] : levels[l][i].key[1] > 0
    /\ \E i, j \in DOMAIN levels[1] : levels[1][i].key[1] # levels[1][j].key[1]

\* C16: in a document an update has written, the minimum x and the minimum y
\* of the level-0 cell keys are 0
C16_UpdateKeepsNormalized ==
    pc = "updated" =>
        /\ SetMin({DocLevel(doc, 0)[i].key[1] : i \in DOMAIN DocLevel(doc, 0)}) = 0
        /\ SetMin({DocLevel(doc, 0)[i].key[2] : i \in DOMAIN DocLevel(doc, 0)}) = 0

\* the permutations of 1..n and a sequence reordered by one of them
Perms(n) == {f \in [1..n -> 1..n] : \A i, j \in 1..n : f[i] = f[j] => i = j}
Permute(s, f) == [i \in DOMAIN s |-> s[f[i]]]

\* the cells of a level-0 grid without their order: key, normalized
\* coordinates, bounds and the set of fragments of each cell
CellSet(grid) ==
    {[key |-> grid[i].key, x |-> grid[i].x, y |-> grid[i].y,
      min_lat |-> grid[i].min_lat, max_lat |-> grid[i].max_lat,
      min_lon |-> grid[i].min_lon, max_lon |-> grid[i].max_lon,
      tags |-> Range(grid[i].combined_tag)] : i \in DOMAIN grid}

\* the state right after create_base_grid, before any provider call
BaseGridMade == pc = "cell_pass" /\ log = << >>
Boundaries == define_boundaries(args.tags_data, CustomArg(args.custom))

\* C17: create_base_grid gives the same set of cells, with the same tags in
\* each cell, for every permutation of the tag list under the same boundary
C17_BaseGridOrderIndependent ==
    BaseGridMade =>
        \A f \in Perms(Len(args.tags_data)) :
            CellSet(create_base_grid(Permute(args.tags_data, f), Boundaries))
                = CellSet(levels[1])

\* the base grid has two or more cells and a permutation of the tags gives
\* the cells in another dict order
C17_Witness ==
    /\ BaseGridMade
    /\ Len(levels[1]) >= 2
    /\ \E f \in Perms(Len(args.tags_data)) :
          create_base_grid(Permute(args.tags_data, f), Boundaries) # levels[1]

\* the step of an update that locates the cell and merges or creates it
MergeStep == pc \in UpdStartPcs /\ pc' = "u_level0"

\* C18: when the computed key exists in level 0, the update appends the new
\* text to the text of that cell and level 0 keeps its cells; otherwise it
\* adds one cell under that key holding the new text alone; no other
\* level-0 cell changes
C18_MergeOrCreate ==
    [][MergeStep =>
          LET key == <<upd'.normalized_x, upd'.normalized_y>>
              old == doc.levels[1]
              new == results'.levels[1]
          IN  IF HasKey(old, key)
              THEN /\ Len(new) = Len(old)
                   /\ \A i \in DOMAIN old :
                         new[i] = IF old[i].key = key
                                  THEN [old[i] EXCEPT !.combined_tag = @ \o upd'.tag_text]
                                  ELSE old[i]
              ELSE /\ Len(new) = Len(old) + 1
                   /\ SubSeq(new, 1, Len(old)) = old
                   /\ Last(new).key = key
                   /\ Last(new).combined_tag = upd'.tag_text]_vars

\* a second update has created a level-0 cell in a document of two or more
\* cells into which the first update had merged its text
C18_Witness ==
    /\ pc = "u_level0" /\ log = << >>
    /\ updates = 2
    /\ upd.created
    /\ Len(doc.levels[1]) >= 2
    /\ Len(doc.levels[1]) = Len(levels[1])
    /\ \E i \in DOMAIN levels[1] :
          /\ doc.levels[1][i].combined_tag # levels[1][i].combined_tag
          /\ doc.levels[1][i].combined_tag # << >>

\* C19: an update started on a document whose level 0 has no cells ends with
\* the error at once: no provider call is made and the document is not changed
C19_EmptyLevelFails ==
    [][(pc \in UpdStartPcs /\ updates' = updates + 1 /\ DocLevel(doc, 0) = << >>) =>
          /\ pc' = "u_failed"
          /\ doc' = doc
          /\ inflight' = << >>
          /\ log' = << >>
          /\ faults' = faults]_vars

\* an update of a built document with an empty level 0 has failed
C19_Witness ==
    /\ pc = "u_failed"
    /\ updates >= 1
    /\ DocLevel(doc, 0) = << >>
    /\ results = doc

\* the build has no tags and no custom boundaries in effect
NoTagsNoBoundary == args.tags_data = << >> /\ CustomArg(args.custom) = NoBoundaries

\* C20: a build from an empty tag list without explicit boundary fails in
\* define_boundaries: no grid is made, no provider call is sent and no
\* document is produced
C20_EmptyBuildFails ==
    /\ [][(pc = "start" /\ NoTagsNoBoundary /\ pc' # pc) =>
              /\ pc' = "failed"
              /\ levels' = << >>
              /\ inflight' = << >>
              /\ doc' = NoDoc]_vars
    /\ [](pc = "failed" =>
              /\ levels = << >> /\ inflight = << >> /\ log = << >>
              /\ doc = NoDoc)
    /\ [](NoTagsNoBoundary => pc \in {"start", "failed"})

\* the build of an empty tag list without boundary has failed
C20_Witness == pc = "failed" /\ NoTagsNoBoundary

\* every batch of the running pass has returned or raised
PassFinished ==
    /\ inflight = << >>
    /\ \A idx \in 0..(Len(pass.cells) - 1) :
          idx % args.batch_size = 0 =>
              \E e \in DOMAIN log :
                  /\ log[e].level = pass.level
                  /\ log[e].idx = idx
                  /\ log[e].ev \in {"return", "raise"}

RECURSIVE InKeyOrder(_, _)
\* the cells of level under the indices S, by key: lat first, then lon
InKeyOrder(level, S) ==
    IF S = {} THEN << >>
    ELSE LET m == CHOOSE i \in S : \A j \in S :
                    \/ level[i].key[1] < level[j].key[1]
                    \/ /\ level[i].key[1] = level[j].key[1]
                       /\ level[i].key[2] <= level[j].key[2]
         IN  <<level[m]>> \o InKeyOrder(level, S \ {m})

\* the texts of the children of parent in level, joined in kernel order
ChildrenText(level, parent) ==
    LET kids == InKeyOrder(level, {i \in DOMAIN level : level[i].leaves \subseteq parent.leaves})
    IN  Flatten([i \in DOMAIN kids |-> kids[i].combined_tag])

\* a level is derived / the document is returned
DeriveStep == pc \in PassPcs /\ Len(levels') = Len(levels) + 1
ReturnStep == pc # "built" /\ pc' = "built"

\* C21: a level is derived only when the pass over the level below it has
\* finished, the text of each derived cell is the join of the texts its
\* children have after that pass, and the document is returned only after
\* the pass over the last level has finished
C21_SummarizeBeforeDerive ==
    /\ [][DeriveStep =>
              /\ pass.level = Len(levels) - 1
              /\ PassFinished
              /\ SubSeq(levels', 1, Len(levels)) = levels
              /\ \A c \in DOMAIN Last(levels') :
                    Last(levels')[c].combined_tag
                        = ChildrenText(Last(levels), Last(levels')[c])]_vars
    /\ [][ReturnStep =>
              /\ pc = "final_pass"
              /\ pass.level = Len(levels) - 1
              /\ PassFinished
              /\ \A l \in DOMAIN levels : \A i \in DOMAIN levels[l] :
                    doc'.levels[l][i].combined_tag = levels[l][i].combined_tag]_vars

\* a pyramid was returned whose top cell joins two children, after a pass of
\* two batches over a level below and a pass over the top level
C21_Witness ==
    /\ Built
    /\ TopLevel(doc) >= 1
    /\ \E c \in DOMAIN Last(levels) : Cardinality(Last(levels)[c].leaves) >= 2
    /\ \E e \in DOMAIN log : log[e].level = TopLevel(doc) /\ log[e].ev = "return"
    /\ \E e \in DOMAIN log : log[e].level >= 0 /\ log[e].idx > 0

\* the calls sent and the calls answered, in the log of the running operation
CallsSent == Cardinality({e \in DOMAIN log : log[e].ev = "call"})
CallsAnswered == Cardinality({e \in DOMAIN log : log[e].ev \in {"return", "raise"}})

\* C22: in a build and in an update at most one provider call is outstanding:
\* a call is sent only after every earlier call has returned or raised
C22_OneCallOutstanding ==
    /\ Len(inflight) <= 1
    /\ CallsSent - CallsAnswered = Len(inflight)
    /\ \A e \in DOMAIN log :
          (log[e].ev = "call" /\ e < Len(log)) =>
              log[e + 1].ev \in {"return", "raise"}

\* an update waits for its second call after its first call returned
C22_Witness ==
    /\ InUpdate
    /\ Len(inflight) = 1
    /\ CallsSent = 2
    /\ CallsAnswered = 1

\* two events of the log are about the same batch of the same pass
SameBatch(e, f) == log[e].level = log[f].level /\ log[e].idx = log[f].idx

\* C23: each batch of each pass of a build is sent at most once, and a batch
\* whose call raised is not sent again
C23_BatchSentOnce ==
    (pc \in PassPcs \cup {"built"}) =>
        /\ \A e, f \in DOMAIN log :
              (log[e].ev = "call" /\ log[f].ev = "call" /\ SameBatch(e, f)) => e = f
        /\ \A e, f \in DOMAIN log :
              (log[e].ev = "raise" /\ e < f) => ~SameBatch(e, f)

\* a build ended in which a call raised and a later batch was sent
C23_Witness ==
    /\ Built
    /\ \E e, f \in DOMAIN log : log[e].ev = "raise" /\ e < f /\ log[f].ev = "call"

\* the cells a pass is to send: with several fragments in the cell pass, with
\* a non-empty text in the passes over a level
EligibleCells(level_data, level) ==
    {c \in DOMAIN level_data :
        IF level = -1 THEN Len(level_data[c].combined_tag) > 1
        ELSE level_data[c].combined_tag # << >>}

\* the batch offsets at which the running pass has sent a call
CallOffsets == {log[e].idx : e \in {f \in DOMAIN log :
                                       log[f].ev = "call" /\ log[f].level = pass.level}}

\* a pass is about to send its first batch
PassAtStart == pc \in PassPcs /\ inflight = << >> /\ pass.batch_idx = 0

\* C24: a pass over n eligible cells with batch size b lists every eligible
\* cell once in level order, sends contiguous batches of at most b cells of
\* that list, makes ceil(n / b) calls, and a summary under ordinal i goes to
\* the i-th cell of the batch and to no other cell
C24_ContiguousBatches ==
    /\ [](PassAtStart =>
            /\ Range(pass.cells) = EligibleCells(levels[level_num], pass.level)
            /\ \A i, j \in DOMAIN pass.cells : i < j => pass.cells[i] < pass.cells[j])
    /\ [][PassStep("call") =>
            LET b == args.batch_size
                n == Len(pass.cells)
                first == pass.batch_idx
                d == inflight'[1].descriptions
            IN  /\ first % b = 0
                /\ Len(d) = (IF n - first < b THEN n - first ELSE b)
                /\ Len(d) >= 1
                /\ \A j \in DOMAIN d :
                      LET text == levels[level_num][pass.cells[first + j]].combined_tag
                      IN  d[j] = IF pass.level = -1 THEN JoinTokens(text, ",")
                                 ELSE JoinTokens(text, ";")]_vars
    /\ [][PassStep("return") =>
            LET b == args.batch_size
                n == Len(pass.cells)
                first == pass.batch_idx
                last == IF n - first < b THEN n ELSE first + b
            IN  /\ \A l \in DOMAIN levels : l # level_num => levels'[l] = levels[l]
                /\ \A c \in DOMAIN levels[level_num] :
                      IF \E i \in DOMAIN summaries' :
                            first + i + 1 <= last /\ pass.cells[first + i + 1] = c
                      THEN \E i \in DOMAIN summaries' :
                              /\ first + i + 1 <= last
                              /\ pass.cells[first + i + 1] = c
                              /\ levels'[level_num][c].combined_tag = summaries'[i]
                      ELSE levels'[level_num][c] = levels[level_num][c]]_vars
    /\ [](PassOver =>
            LET b == args.batch_size
                n == Len(pass.cells)
            IN  /\ Cardinality({e \in DOMAIN log : log[e].ev = "call"
                                                   /\ log[e].level = pass.level})
                      = (n + b - 1) \div b
                /\ CallOffsets = {k * b : k \in {j \in 0..n : j * b < n}})

\* a pass over two eligible cells with batch size 1 is over after two calls
C24_Witness ==
    /\ PassOver
    /\ Len(pass.cells) = 2
    /\ args.batch_size = 1
    /\ CallOffsets = {0, 1}
    /\ \E e \in DOMAIN log : log[e].ev = "return" /\ log[e].idx = 1

\* C25: in the example run level 0 has exactly two cells, one with the text
\* "cafe; bar" and one with "park", and level 1 has exactly one cell, whose
\* bounds are the envelope of the two: lat 28.60 to 28.62, lon 77.20 to 77.22
C25_Example ==
    /\ BaseGridMade =>
          /\ Len(levels[1]) = 2
          /\ {levels[1][c].combined_tag : c \in DOMAIN levels[1]}
                = {<< <<"cafe">>, <<"bar">> >>, << <<"park">> >>}
    /\ Len(levels) >= 2 =>
          /\ Len(levels[1]) = 2
          /\ Len(levels[2]) = 1
          /\ levels[2][1].min_lat = SetMin({levels[1][c].min_lat : c \in DOMAIN levels[1]})
          /\ levels[2][1].max_lat = SetMax({levels[1][c].max_lat : c \in DOMAIN levels[1]})
          /\ levels[2][1].min_lon = SetMin({levels[1][c].min_lon : c \in DOMAIN levels[1]})
          /\ levels[2][1].max_lon = SetMax({levels[1][c].max_lon : c \in DOMAIN levels[1]})
          /\ <<levels[2][1].min_lat, levels[2][1].max_lat,
               levels[2][1].min_lon, levels[2][1].max_lon>> = <<0, 4, 0, 4>>
    /\ Built =>
          /\ Len(doc.levels) = 2
          /\ Len(doc.levels[1]) = 2
          /\ Len(doc.levels[2]) = 1
          /\ doc.levels[2][1].kernel_boundaries
                = [min_lat |-> 0, max_lat |-> 4, min_lon |-> 0, max_lon |-> 4]

\* the example run returned its document
C25_Witness ==
    /\ Built
    /\ args.tags_data = ExampleTags
    /\ Len(doc.levels) = 2
    /\ Len(doc.levels[2]) = 1

\* C26: in a built pyramid the level-L cell under key (X, Y), L >= 1, was
\* derived from exactly the level-0 cells (x, y) with x // 2^L = X and
\* y // 2^L = Y
C26_KernelOfLevel0 ==
    Built =>
        \A L \in 1..TopLevel(doc) : \A i \in DOMAIN DocLevel(doc, L) :
            \A j \in DOMAIN DocLevel(doc, 0) :
                LET key == DocLevel(doc, L)[i].key
                    key0 == DocLevel(doc, 0)[j].key
                IN  <<L, key, key0>> \in derived
                        <=> /\ key0[1] \div Pow2(L) = key[1]
                            /\ key0[2] \div Pow2(L) = key[2]

\* the largest distance between two dict keys of a level, along lat or lon
Span(level) ==
    IF level = << >> THEN 0
    ELSE LET lats == {level[i].key[1] : i \in DOMAIN level}
             lons == {level[i].key[2] : i \in DOMAIN level}
             dLat == SetMax(lats) - SetMin(lats)
             dLon == SetMax(lons) - SetMin(lons)
         IN  IF dLat > dLon THEN dLat ELSE dLon

\* what is left of a build, largest first: passes and derivations, batches of
\* the running pass, the answer awaited
Rank ==
    <<IF pc = "cell_pass" THEN Span(Last(levels)) + 2
      ELSE IF pc = "level_pass" THEN Span(Last(levels)) + 1
      ELSE 0,
      IF pass.batch_idx < Len(pass.cells) THEN Len(pass.cells) - pass.batch_idx ELSE 0,
      1 - Len(inflight)>>

\* r comes before s in the lexicographic order of triples of naturals
RankLess(r, s) ==
    /\ \A i \in 1..3 : r[i] >= 0
    /\ \/ r[1] < s[1]
       \/ r[1] = s[1] /\ r[2] < s[2]
       \/ r[1] = s[1] /\ r[2] = s[2] /\ r[3] < s[3]

\* a step of a running build returns the document or lowers Rank
RankStep == pc \in PassPcs => (pc' = "built" \/ RankLess(Rank', Rank))
\* a derivation lowers the span of the keys
SpanStep == DeriveStep => Span(Last(levels')) < Span(Last(levels))

\* C27: the build loop terminates with a one-cell level for every non-empty
\* level 0: every step of a running build either returns the document or
\* lowers Rank, a running build can always take a step, a derivation lowers
\* the span of the keys even when it keeps the number of cells, and the last
\* level of the returned document has one cell
C27_BuildTerminates ==
    /\ [][RankStep]_vars
    /\ [][SpanStep]_vars
    /\ [](pc \in PassPcs =>
            \/ inflight # << >>
            \/ pass.batch_idx < Len(pass.cells)
            \/ PassOver)
    /\ []((pc \in PassPcs /\ Span(Last(levels)) = 0) => Len(Last(levels)) <= 1)
    /\ []((Built /\ levels[1] # << >>) => Len(Last(levels)) = 1)

\* a build returned a pyramid with one cell at the top although one of its
\* derivations kept the number of cells
C27_Witness ==
    /\ Built
    /\ Len(Last(levels)) = 1
    /\ \E l \in 1..(Len(levels) - 1) :
          Len(levels[l]) > 1 /\ Len(levels[l + 1]) >= Len(levels[l])

\* the window of a derivation with the given stride that holds cell c of level
WindowOf(level, c, stride) ==
    <<(level[c].key[1] - SetMin({level[i].key[1] : i \in DOMAIN level})) \div stride,
      (level[c].key[2] - SetMin({level[i].key[2] : i \in DOMAIN level})) \div stride>>

\* the cells of next_level that were made from cell c of level
ParentsOf(level, c, next_level) ==
    {p \in DOMAIN next_level : level[c].leaves \subseteq next_level[p].leaves}

\* a derivation gives every cell one parent, one parent per non-empty window
WindowStep ==
    DeriveStep =>
        LET cur == Last(levels)
            nxt == Last(levels')
            stride == Pow2(level_num)
        IN  /\ \A c \in DOMAIN cur : Cardinality(ParentsOf(cur, c, nxt)) = 1
            /\ \A c, d \in DOMAIN cur :
                  WindowOf(cur, c, stride) = WindowOf(cur, d, stride)
                      <=> ParentsOf(cur, c, nxt) = ParentsOf(cur, d, nxt)
            /\ Len(nxt) = Cardinality({WindowOf(cur, c, stride) : c \in DOMAIN cur})
            /\ \A p, q \in DOMAIN nxt : nxt[p].key = nxt[q].key => p = q
            /\ \A p \in DOMAIN nxt :
                  nxt[p].leaves = UNION {cur[c].leaves :
                                            c \in {d \in DOMAIN cur : p \in ParentsOf(cur, d, nxt)}}

\* C28: in the derivation of a level the kernel windows do not overlap and
\* cover the level below: every cell is collected into exactly one parent
\* and two distinct non-empty windows give parents under distinct keys
C28_WindowsPartition == [][WindowStep]_vars

\* a level of two cells above level 0 was derived into two parents, one for
\* each of two windows
C28_Witness ==
    /\ pc = "level_pass"
    /\ \E l \in 2..(Len(levels) - 1) : Len(levels[l]) = 2 /\ Len(levels[l + 1]) = 2
    /\ Len(Last(levels)) = 2

\* the cells of level l of the document after that are new or differ from
\* the cell at the same place of the document before
ChangedCells(before, after, l) ==
    {i \in DOMAIN after.levels[l] :
        i \notin DOMAIN before.levels[l] \/ after.levels[l][i] # before.levels[l][i]}

\* what an update may have done to the document it was given
UpdateFrame(before, after) ==
    /\ after.metadata = before.metadata
    /\ Len(after.levels) = Len(before.levels)
    /\ \A l \in DOMAIN before.levels :
          /\ \A i \in DOMAIN before.levels[l] :
                /\ i \in DOMAIN after.levels[l]
                /\ after.levels[l][i].key = before.levels[l][i].key
                /\ after.levels[l][i].kernel_boundaries
                      = before.levels[l][i].kernel_boundaries
          /\ Len(after.levels[l]) <= Len(before.levels[l]) + (IF l = 1 THEN 1 ELSE 0)
          /\ Cardinality(ChangedCells(before, after, l)) <= 1

\* a call of the update returns: with ordinal 0 in the answer the cell under
\* the key of the level takes the summary, and only that cell is touched
UpdReturnStep ==
    (InUpdate /\ Len(log') = Len(log) + 1 /\ Last(log').ev = "return") =>
        LET l == Last(log').level + 1
            key == IF l = 1 THEN CellKey ELSE KernelKey(l - 1)
        IN  /\ HasKey(results.levels[l], key)
            /\ \A m \in DOMAIN results.levels : m # l => results'.levels[m] = results.levels[m]
            /\ \A i \in DOMAIN results.levels[l] :
                  IF results.levels[l][i].key = key /\ 0 \in DOMAIN summaries'
                  THEN results'.levels[l][i].combined_tag = summaries'[0]
                  ELSE results'.levels[l][i] = results.levels[l][i]

\* a step of the update that is not a returning call leaves the document
UpdOtherStep ==
    (InUpdate /\ ~(Len(log') = Len(log) + 1 /\ Last(log').ev = "return")) =>
        (results' = results \/ pc' \notin {"u_level0", "u_climb"})

\* C29: an update changes at most one cell per level, the cell under the
\* kernel key taking the summary when the provider returns ordinal 0; it
\* removes no cell, adds no cell above level 0 and at most one at level 0,
\* adds and removes no level and leaves the metadata as they were
C29_UpdateFrame ==
    /\ [](pc \in {"u_level0", "u_climb", "u_failed"} => UpdateFrame(doc, results))
    /\ [][UpdReturnStep]_vars
    /\ [][UpdOtherStep]_vars
    /\ [][(pc = "u_climb" /\ pc' = "updated") => doc' = results]_vars

\* an update of a document of two levels with two cells at level 0 is at the
\* end of its loop: it has rewritten one cell of each level
C29_Witness ==
    /\ pc = "u_climb"
    /\ upd.level_num >= Len(results.levels)
    /\ Len(doc.levels) >= 2
    /\ Len(doc.levels[1]) >= 2
    /\ \A l \in DOMAIN doc.levels : Cardinality(ChangedCells(doc, results, l)) = 1

\* the tokens of a text
Tokens(text) == UNION {Range(text[i]) : i \in DOMAIN text}

\* C30: when two updates of the same level-0 cell run as interleaved tasks on
\* one document and every provider call is answered in full, the text the
\* cell has when both have returned was made from both new tags
C30_NoLostUpdate ==
    (/\ \A t \in ConcurrentTasks : tasks[t].pc = "done"
     /\ tasks[1].key = tasks[2].key
     /\ faults = 0)
        => {"u1", "u2"} \subseteq
               Tokens(Get(results.levels[1], tasks[1].key).combined_tag)

====
